---- MODULE Spec2Model ----
(***************************************************************************)
(* A model of chaluptests/methods/cond_mixnn.py: the neural-network        *)
(* conditional independence test test(), its p-value estimators and the    *)
(* bootstrap primitive.                                                    *)
(*                                                                         *)
(* Numbers.  numpy floats are modelled as pairs <<num, den>> of integers   *)
(* with den >= 0: den > 0 is the rational num/den, <<n, 0>> with n > 0 is  *)
(* +inf and <<0, 0>> is NaN.  Comparisons follow IEEE: every comparison    *)
(* with NaN is false.                                                      *)
(*                                                                         *)
(* Arrays.  A 2-d array is a sequence of rows, each row a sequence of      *)
(* integers; shape[0] is Len(a), shape[1] is Len(a[1]).                    *)
(*                                                                         *)
(* The regression oracle (neural_networks.nn.NN on Tensorflow 1.x) is an   *)
(* external collaborator: its predictions are drawn from PredVals, fit and *)
(* predict may raise, and its variables live in the graph it was built in. *)
(***************************************************************************)
EXTENDS Integers, Sequences, FiniteSets, TLC

\* ------------------------------------------------------------- bounds

\* Rows of the caller's arrays.
NRows == 3
\* Bootstrap replicates drawn by bootstrap(); the estimators use the
\* default B of the code, 10000, which is out of reach for a model checker.
NumBoot == 2
\* scipy's two-sided p-value is drawn from {0/PGrid, ..., PGrid/PGrid}.
PGrid == 2
\* Column counts of the caller's x and y.
Dims == {1, 2}
\* num_perm
NumPerms == {1, 2}
\* prop_test as num/den; with NRows = 3 these give n_test = 0, 1 and 2.
PropTests == {<<1, 4>>, <<1, 2>>, <<2, 3>>}
\* max_time in ticks; every fit takes one tick of wall-clock time.
MaxTimes == {1, 100}
\* The values an oracle predicts.
PredVals == {1, 2}
\* The values a freshly initialised network parameter takes.
ParamInits == {1, 2}
\* Statistic values handed to the estimators when they are run on their own.
StatVals == {<<0, 1>>, <<1, 2>>, <<1, 1>>}
\* Lengths of h0 and h1 when bootstrap() is run on its own.
Lens == {1, 2}

BootstrapTypes == {"mindiv", "mindiff", "ttest"}

\* ------------------------------------------------------ float helpers

NaN == <<0, 0>>
Inf == <<1, 0>>

IsNaN(a) == a[1] = 0 /\ a[2] = 0

IsFinite(a) == a[2] > 0

\* a > b on floats.
FGt(a, b) == ~IsNaN(a) /\ ~IsNaN(b) /\ a[1] * b[2] > b[1] * a[2]

\* a == b on floats.
FEq(a, b) == ~IsNaN(a) /\ ~IsNaN(b) /\ a[1] * b[2] = b[1] * a[2]

\* a / b on non-negative floats: x/0 is inf, 0/0 is nan.
FDiv(a, b) ==
    IF IsNaN(a) \/ IsNaN(b) THEN NaN
    ELSE IF ~IsFinite(a) /\ ~IsFinite(b) THEN NaN
    ELSE IF ~IsFinite(a) THEN Inf
    ELSE IF ~IsFinite(b) THEN <<0, 1>>
    ELSE IF b[1] = 0 THEN (IF a[1] = 0 THEN NaN ELSE Inf)
    ELSE <<a[1] * b[2], a[2] * b[1]>>

\* a - b on floats that are finite or nan.
FSub(a, b) ==
    IF ~IsFinite(a) \/ ~IsFinite(b) THEN NaN
    ELSE <<a[1] * b[2] - b[1] * a[2], a[2] * b[2]>>

\* a + b on non-negative floats.
FAdd(a, b) ==
    IF IsNaN(a) \/ IsNaN(b) THEN NaN
    ELSE IF ~IsFinite(a) \/ ~IsFinite(b) THEN Inf
    ELSE <<a[1] * b[2] + b[1] * a[2], a[2] * b[2]>>

RECURSIVE FSum(_)
FSum(s) == IF s = <<>> THEN <<0, 1>> ELSE FAdd(s[1], FSum(Tail(s)))

\* np.min of a non-empty 1-d array: nan if any element is nan.
NpMin(s) ==
    IF \E i \in 1..Len(s) : IsNaN(s[i]) THEN NaN
    ELSE s[CHOOSE i \in 1..Len(s) : \A j \in 1..Len(s) : ~FGt(s[i], s[j])]

\* np.mean of a 1-d array of floats.
NpMean(s) == IF s = <<>> THEN NaN ELSE FDiv(FSum(s), <<Len(s), 1>>)

\* ------------------------------------------------------ array helpers

\* A 2-d array: its rows and its column count (kept apart from the rows so
\* that an array of zero rows still has a shape).
Arr(rows, cols) == [rows |-> rows, cols |-> cols]

\* a[idx] for an index array idx (numpy fancy indexing: a new array).
TakeRows(a, idx) == Arr([i \in 1..Len(idx) |-> a.rows[idx[i]]], a.cols)

\* np.hstack([a, b]) for arrays of equal row count (a new array).
HStack(a, b) ==
    Arr([i \in 1..Len(a.rows) |-> a.rows[i] \o b.rows[i]], a.cols + b.cols)

\* a[k:]
RowsFrom(a, k) == Arr(SubSeq(a.rows, k + 1, Len(a.rows)), a.cols)

\* a[:k]
RowsTo(a, k) == Arr(SubSeq(a.rows, 1, k), a.cols)

\* np.zeros(k)
Zeros(k) == [i \in 1..k |-> <<0, 1>>]

\* np.random.permutation(n): the index arrays it can return (1-based).
Permutation(n) == {p \in [1..n -> 1..n] : \A i, j \in 1..n : p[i] = p[j] => i = j}

\* int(n_samples * prop_test), prop_test = num/den.
NTest(n, prop) == (n * prop[1]) \div prop[2]

\* numpy broadcasting of one axis: the lengths agree, or one of them is 1.
Broadcasts(p, q) == p = q \/ p = 1 \/ q = 1

BLen(p, q) == IF p = 1 THEN q ELSE p

\* mse(y_pred, y) raises when the shapes do not broadcast.
MseRaises(y_pred, y) ==
    \/ ~Broadcasts(Len(y_pred.rows), Len(y.rows))
    \/ ~Broadcasts(y_pred.cols, y.cols)

\* np.mean((y - y_pred)**2): the mean over the broadcast shape, nan when
\* that shape holds no element.
mse(y_pred, y) ==
    LET R == BLen(Len(y_pred.rows), Len(y.rows))
        C == BLen(y_pred.cols, y.cols)
        At(a, i, j) == a.rows[IF Len(a.rows) = 1 THEN 1 ELSE i][IF a.cols = 1 THEN 1 ELSE j]
        Sq(k) == LET i == ((k - 1) \div C) + 1
                     j == ((k - 1) % C) + 1
                     d == At(y, i, j) - At(y_pred, i, j)
                 IN d * d
        S[k \in 0..(R * C)] == IF k = 0 THEN 0 ELSE Sq(k) + S[k - 1]
    IN IF R * C = 0 THEN NaN ELSE <<S[R * C], R * C>>

\* ------------------------------------------------- bootstrap primitive

\* The statistic f: 'div' is the lambda of bootstrap_mindiv, 'diff' the
\* lambda of bootstrap_mindiff.
Stat(f, a, b) ==
    IF f = "div" THEN FDiv(NpMin(a), NpMin(b)) ELSE FSub(NpMin(a), NpMin(b))

\* Choice with the last element of the pool never drawn.
Choice_OffByOne(all_h) ==
    {[i \in 1..Len(all_h) |-> all_h[idx[i]]] :
        idx \in [1..Len(all_h) -> 1..(Len(all_h) - 1)]}

\* np.random.choice(all_h, size=m + n, replace=True): the arrays it can return.
Choice(all_h) ==
    {[i \in 1..Len(all_h) |-> all_h[idx[i]]] :
        idx \in [1..Len(all_h) -> 1..Len(all_h)]}

\* One replicate: f on the first m and the remaining elements of b_data.
Replicate(f, b_data, m) ==
    Stat(f, SubSeq(b_data, 1, m), SubSeq(b_data, m + 1, Len(b_data)))

\* The replicate statistics one iteration of bootstrap(h0, h1, f) can produce.
Replicates(f, a, b) == {Replicate(f, d, Len(a)) : d \in Choice(a \o b)}

\* Fraction counting the replicates at or above t_obs.
Fraction_GreaterEqual(ts, t) ==
    <<Cardinality({b \in 1..Len(ts) : FGt(ts[b], t) \/ FEq(ts[b], t)}), Len(ts)>>

\* np.sum(t_star > t_obs) / float(t_star.size)
Fraction(ts, t_obs) ==
    <<Cardinality({b \in 1..Len(ts) : FGt(ts[b], t_obs)}), Len(ts)>>

\* ------------------------------------------------- p-value estimators

\* d0s / d1s, element by element.
Ratios(d0s, d1s) == [i \in 1..Len(d0s) |-> FDiv(d0s[i], d1s[i])]

\* a / 2.
FHalf(a) == IF IsNaN(a) THEN NaN ELSE <<a[1], 2 * a[2]>>

\* scipy.stats.ttest_1samp(r, 1): the two-sided p-values it can return.  The
\* value is nan for fewer than two samples, a non-finite sample, or samples
\* all equal to 1; it is 0 for samples all equal and different from 1; and
\* otherwise some value of [0, 1], here of the grid k/PGrid.
TTest1Samp(r) ==
    IF Len(r) < 2 \/ \E i \in 1..Len(r) : ~IsFinite(r[i]) THEN {NaN}
    ELSE IF \A i \in 1..Len(r) : FEq(r[i], r[1])
         THEN (IF FEq(r[1], <<1, 1>>) THEN {NaN} ELSE {<<0, PGrid>>})
    ELSE {<<k, PGrid>> : k \in 0..PGrid}

\* bootstrap_ttest, given the two-sided p-value p of the ratios r.
TTestPValue(p, r) ==
    IF FGt(NpMean(r), <<1, 1>>) THEN FHalf(p) ELSE FSub(<<1, 1>>, FHalf(p))

\* ------------------------------------------------------------ inputs

\* The caller's arrays: row i of x holds i, row i of y holds NRows + 1 - i,
\* row i of z holds 10 + i, so that rows are told apart by their content.
CallerX(d) == Arr([i \in 1..NRows |-> [c \in 1..d |-> i]], d)

CallerY(d) == Arr([i \in 1..NRows |-> [c \in 1..d |-> NRows + 1 - i]], d)

CallerZ == Arr([i \in 1..NRows |-> <<10 + i>>], 1)

NoArr == Arr(<<>>, 0)

\* ------------------------------------------------------------- state

VARIABLES
    args,           \* the arguments of the call: x, y, z, num_perm, prop_test,
                    \* max_time, discrete, fixed_arch, bootstrap_type
    pc,             \* position in the code
    err,            \* the exception raised, "none" while there is none
    x, y, z,        \* test()'s locals after role selection and equalisation
    n_samples, n_test, x_z,
    d0_stats, d1_stats,
    clf,            \* the oracle: the graph it was built in and its depth
    perm_id, perm_ids, x_z_bootstrap,
    sess,           \* the open tf.Session: its graph and its variables' value
    default_graph,  \* Tensorflow's default graph (an identity)
    init_nn_save,   \* the checkpoint file './init_nn_save'
    y_pred0, y_pred1,
    p_value,        \* the value test() returns
    f, h0, h1, B, t_obs, t_star, b_id,  \* the estimator's and bootstrap()'s locals
    caller,         \* who called bootstrap(): an estimator, or "direct"
    clock,          \* wall-clock time spent in the trial loop, in ticks
    log,            \* history: what was called with what (not program state)
    sweep           \* the sweep driver of experiment_cond_strength.py: RESULTS,
                    \* its loop variables and position

vars == <<args, pc, err, x, y, z, n_samples, n_test, x_z, d0_stats, d1_stats,
          clf, perm_id, perm_ids, x_z_bootstrap, sess, default_graph,
          init_nn_save, y_pred0, y_pred1, p_value, f, h0, h1, B, t_obs,
          t_star, b_id, caller, clock, log, sweep>>

dataVars == <<x, y, z, n_samples, n_test, x_z>>

bootVars == <<f, h0, h1, B, t_obs, t_star, b_id, caller>>

tfVars == <<sess, default_graph, init_nn_save>>

NoCall == [in |-> NoArr, tgt |-> NoArr, start |-> 0]

\* The history of one trial, cleared when the next begins.
NoTrial == [draws |-> 0, fits |-> 0, fit0 |-> NoCall, fit1 |-> NoCall,
            pred0 |-> NoArr, pred1 |-> NoArr]

NoLog == [role |-> "none", built |-> 0, saves |-> 0, first_saved |-> 0,
          writes0 |-> <<>>, writes1 |-> <<>>, estimates |-> 0, trials |-> 0,
          begun |-> 0, trial |-> NoTrial]

\* No sweep is running.
NoSweep == [pc |-> "idle"]

\* The value of a network's variables after clf.fit.
Trained == 10

NoSess == [graph |-> 0, vars |-> 0]

NoClf == [graph |-> 0, arch |-> 0]

\* nn.NN(...): an oracle built in the current default graph.
NN(graph, depth) == [graph |-> graph, arch |-> depth]

\* The calls of test() that are explored, in three slices: every pair of
\* discreteness flags and column counts with one trial; every num_perm,
\* prop_test and fixed_arch with continuous one-column x and y; and every
\* estimator with one trial.
ArgsRoles ==
    [x : {CallerX(d) : d \in Dims}, y : {CallerY(d) : d \in Dims}, z : {CallerZ},
     num_perm : {1}, prop_test : {<<1, 2>>}, max_time : {1},
     discrete : BOOLEAN \X BOOLEAN, fixed_arch : {FALSE},
     bootstrap_type : {"ttest"}]

ArgsTrials ==
    [x : {CallerX(1)}, y : {CallerY(1)}, z : {CallerZ},
     num_perm : NumPerms, prop_test : PropTests, max_time : {1},
     discrete : {<<FALSE, FALSE>>}, fixed_arch : BOOLEAN,
     bootstrap_type : {"ttest", "unknown"}]

ArgsEstimators ==
    [x : {CallerX(1)}, y : {CallerY(1)}, z : {CallerZ},
     num_perm : {1}, prop_test : {<<1, 2>>}, max_time : MaxTimes,
     discrete : {<<FALSE, FALSE>>}, fixed_arch : {FALSE},
     bootstrap_type : BootstrapTypes \cup {"unknown"}]

Args == ArgsRoles \cup ArgsTrials \cup ArgsEstimators

\* The state as test() is entered.
Init ==
    /\ args \in Args
    /\ pc = "start"
    /\ err = "none"
    /\ x = NoArr /\ y = NoArr /\ z = NoArr
    /\ n_samples = 0 /\ n_test = 0 /\ x_z = NoArr
    /\ d0_stats = <<>> /\ d1_stats = <<>>
    /\ clf = NoClf
    /\ perm_id = 0 /\ perm_ids = <<>> /\ x_z_bootstrap = NoArr
    /\ sess = NoSess /\ default_graph = 1 /\ init_nn_save = 0
    /\ y_pred0 = NoArr /\ y_pred1 = NoArr
    /\ p_value = NaN
    /\ f = "none" /\ h0 = <<>> /\ h1 = <<>> /\ B = 0 /\ t_obs = NaN
    /\ t_star = <<>> /\ b_id = 0 /\ caller = "none"
    /\ clock = 0
    /\ log = NoLog
    /\ sweep = NoSweep

\* ------------------------------------------------------------ test()

\* Lines 110-114: whether x and y change roles.
SwapRoles(discrete, x_dim, y_dim) ==
    IF discrete[1] /\ ~discrete[2] THEN TRUE
    ELSE IF x_dim < y_dim THEN TRUE
    ELSE FALSE

\* np.tile(a, [1, reps])
Tile(a, reps) ==
    LET Rep[k \in 0..reps] == [i \in 1..Len(a.rows) |->
            IF k = 0 THEN <<>> ELSE Rep[k - 1][i] \o a.rows[i]]
    IN Arr(Rep[reps], a.cols * reps)

Max(a, b) == IF a > b THEN a ELSE b

\* utils.equalize_dimensions: the lower-dimensional variables are duplicated
\* along the columns; the rows and their order are kept.
EqualizeDimensions(a, b, c) ==
    LET max_dim == Max(a.cols, Max(b.cols, c.cols))
    IN <<Tile(a, max_dim \div a.cols), Tile(b, max_dim \div b.cols),
         Tile(c, max_dim \div c.cols)>>

\* Lines 109-142: role selection, equalisation, the test set size, the
\* conditioned input, the storage and (fixed_arch) the one oracle.
Setup ==
    /\ pc = "start"
    /\ LET sw == SwapRoles(args.discrete, args.x.cols, args.y.cols)
           eq == EqualizeDimensions(IF sw THEN args.y ELSE args.x,
                                    IF sw THEN args.x ELSE args.y, args.z)
       IN /\ x' = eq[1] /\ y' = eq[2] /\ z' = eq[3]
          /\ n_samples' = Len(eq[1].rows)
          /\ n_test' = NTest(Len(eq[1].rows), args.prop_test)
          /\ x_z' = HStack(eq[1], eq[3])
          /\ log' = [log EXCEPT !.role = IF sw THEN "y" ELSE "x",
                                !.built = IF args.fixed_arch THEN 1 ELSE 0,
                                !.writes0 = [i \in 1..args.num_perm |-> 0],
                                !.writes1 = [i \in 1..args.num_perm |-> 0]]
    /\ d0_stats' = Zeros(args.num_perm)
    /\ d1_stats' = Zeros(args.num_perm)
    /\ clf' = IF args.fixed_arch THEN NN(default_graph, 2) ELSE clf
    /\ pc' = "loop"
    /\ UNCHANGED <<sweep, args, err, perm_id, perm_ids, x_z_bootstrap, tfVars,
                   y_pred0, y_pred1, p_value, bootVars, clock>>

\* Shuffled with the permutation applied to the conditioned input as a whole.
Shuffled_WithZ(a, c, p) == TakeRows(HStack(a, c), p)

\* The shuffled input of line 147: the permutation is applied to x alone.
Shuffled(a, c, p) == HStack(TakeRows(a, p), c)

\* Lines 144-156: the loop continues; the permutation is drawn, the shuffled
\* input built, the oracle constructed (not fixed_arch) and a session opened
\* on the current default graph.
BeginTrial ==
    /\ pc = "loop"
    /\ perm_id < args.num_perm
    /\ \E p \in Permutation(n_samples) :
          /\ perm_ids' = p
          /\ x_z_bootstrap' = Shuffled(x, z, p)
    /\ clf' = IF ~args.fixed_arch THEN NN(default_graph, perm_id + 1) ELSE clf
    /\ sess' = [graph |-> default_graph, vars |-> 0]
    /\ log' = [log EXCEPT !.built = IF ~args.fixed_arch THEN @ + 1 ELSE @,
                          !.begun = @ + 1,
                          !.trial = [NoTrial EXCEPT !.draws = 1]]
    /\ pc' = "init0"
    /\ UNCHANGED <<sweep, args, err, dataVars, d0_stats, d1_stats, perm_id,
                   default_graph, init_nn_save, y_pred0, y_pred1, p_value,
                   bootVars, clock>>

\* Raise with the exception swallowed and the loop continued.
Raise_Swallowed(e) ==
    /\ pc' = "loop"
    /\ err' = e

\* An exception leaves test(): nothing is returned.
Raise(e) ==
    /\ pc' = "raised"
    /\ err' = e

\* Whether the session can run the oracle's operations: they are elements of
\* the graph the oracle was built in, the session runs the graph that was
\* the default when it was opened.
Runs(s, c) == s.graph = c.graph

\* Lines 158-159: initialise the variables at random and save them.
InitSave ==
    /\ pc = "init0"
    /\ IF Runs(sess, clf)
       THEN \E v \in ParamInits :
              /\ sess' = [sess EXCEPT !.vars = v]
              /\ init_nn_save' = v
              /\ log' = [log EXCEPT !.saves = @ + 1,
                                    !.first_saved = IF @ = 0 THEN v ELSE @]
              /\ pc' = "fit0"
              /\ err' = err
       ELSE /\ Raise("GraphError")
            /\ UNCHANGED <<sess, init_nn_save, log>>
    /\ UNCHANGED <<sweep, args, dataVars, d0_stats, d1_stats, clf, perm_id, perm_ids,
                   x_z_bootstrap, default_graph, y_pred0, y_pred1, p_value,
                   bootVars, clock>>

\* The rows a fit is given (a[n_test:]) and the rows a prediction is made
\* and scored on (a[:n_test]).
TrainRows_All(a, k) == a

TrainRows(a, k) == RowsFrom(a, k)

TestRows(a, k) == RowsTo(a, k)

\* clf.fit(inputs, targets, sess=sess): the oracle trains from the session's
\* current variables and takes one tick, or raises.
FitCall(which, inputs, targets, next) ==
    \/ /\ sess' = [sess EXCEPT !.vars = Trained]
       /\ clock' = clock + 1
       /\ log' = [log EXCEPT !.trial.fits = @ + 1,
                             !.trial[which] = [in |-> inputs, tgt |-> targets,
                                               start |-> sess.vars]]
       /\ pc' = next
       /\ err' = err
    \/ /\ Raise("OracleError")
       /\ UNCHANGED <<sess, clock, log>>

\* What clf.predict can return for k input rows: one value of PredVals in
\* every row and column, or an array with one row too many.
Predictions(k, d) ==
    {Arr([i \in 1..k |-> [c \in 1..d |-> v]], d) : v \in PredVals}
    \cup {Arr([i \in 1..(k + 1) |-> [c \in 1..d |-> 1]], d)}

\* Line 160.
Fit0 ==
    /\ pc = "fit0"
    /\ FitCall("fit0", TrainRows(x_z_bootstrap, n_test), TrainRows(y, n_test), "pred0")
    /\ UNCHANGED <<sweep, args, dataVars, d0_stats, d1_stats, clf, perm_id, perm_ids,
                   x_z_bootstrap, default_graph, init_nn_save, y_pred0, y_pred1,
                   p_value, bootVars>>

\* Line 161.
Predict0 ==
    /\ pc = "pred0"
    /\ \/ /\ y_pred0' \in Predictions(n_test, y.cols)
          /\ log' = [log EXCEPT !.trial.pred0 = TestRows(x_z_bootstrap, n_test)]
          /\ pc' = "init1"
          /\ err' = err
       \/ /\ Raise("OracleError")
          /\ UNCHANGED <<y_pred0, log>>
    /\ UNCHANGED <<sweep, args, dataVars, d0_stats, d1_stats, clf, perm_id, perm_ids,
                   x_z_bootstrap, tfVars, y_pred1, p_value, bootVars, clock>>

\* Lines 164-165: initialise at random again, then restore the checkpoint.
InitRestore ==
    /\ pc = "init1"
    /\ sess' = [sess EXCEPT !.vars = init_nn_save]
    /\ pc' = "fit1"
    /\ UNCHANGED <<sweep, args, err, dataVars, d0_stats, d1_stats, clf, perm_id,
                   perm_ids, x_z_bootstrap, default_graph, init_nn_save,
                   y_pred0, y_pred1, p_value, bootVars, clock, log>>

\* Line 166.
Fit1 ==
    /\ pc = "fit1"
    /\ FitCall("fit1", TrainRows(x_z, n_test), TrainRows(y, n_test), "pred1")
    /\ UNCHANGED <<sweep, args, dataVars, d0_stats, d1_stats, clf, perm_id, perm_ids,
                   x_z_bootstrap, default_graph, init_nn_save, y_pred0, y_pred1,
                   p_value, bootVars>>

\* Line 167, and the session closes as the with block is left.
Predict1 ==
    /\ pc = "pred1"
    /\ \/ /\ y_pred1' \in Predictions(n_test, y.cols)
          /\ log' = [log EXCEPT !.trial.pred1 = TestRows(x_z, n_test)]
          /\ pc' = "stats"
          /\ err' = err
       \/ /\ Raise("OracleError")
          /\ UNCHANGED <<y_pred1, log>>
    /\ sess' = NoSess
    /\ UNCHANGED <<sweep, args, dataVars, d0_stats, d1_stats, clf, perm_id, perm_ids,
                   x_z_bootstrap, default_graph, init_nn_save, y_pred0, p_value,
                   bootVars, clock>>

\* Stat0 computed from the prediction on the unshuffled input.
Stat0_FromPred1 == mse(y_pred1, TestRows(y, n_test))

\* Line 170 and line 172: the trial's two statistics.
Stat0 == mse(y_pred0, TestRows(y, n_test))

Stat1 == mse(y_pred1, TestRows(y, n_test))

\* Lines 169-181: the two statistics are stored at perm_id, the default
\* graph is reset, and the loop moves on.  A shape error in mse leaves test().
TrialStats ==
    /\ pc = "stats"
    /\ IF MseRaises(y_pred0, TestRows(y, n_test)) \/ MseRaises(y_pred1, TestRows(y, n_test))
       THEN /\ Raise("ShapeError")
            /\ UNCHANGED <<d0_stats, d1_stats, default_graph, perm_id, log>>
       ELSE /\ d0_stats' = [d0_stats EXCEPT ![perm_id + 1] = Stat0]
            /\ d1_stats' = [d1_stats EXCEPT ![perm_id + 1] = Stat1]
            /\ default_graph' = default_graph + 1
            /\ perm_id' = perm_id + 1
            /\ log' = [log EXCEPT !.writes0[perm_id + 1] = @ + 1,
                                  !.writes1[perm_id + 1] = @ + 1,
                                  !.trials = @ + 1]
            /\ pc' = "loop"
            /\ err' = err
    /\ UNCHANGED <<sweep, args, dataVars, clf, perm_ids, x_z_bootstrap, sess,
                   init_nn_save, y_pred0, y_pred1, p_value, bootVars, clock>>

\* The names globals() holds under 'bootstrap_' + bootstrap_type.
Known(bootstrap_type) == bootstrap_type \in BootstrapTypes

\* Line 184, once the loop has run num_perm times: the estimator is looked
\* up by name and called.  bootstrap_ttest returns at once; bootstrap_mindiv
\* and bootstrap_mindiff compute t_obs and call bootstrap().
Dispatch ==
    /\ pc = "loop"
    /\ perm_id >= args.num_perm
    /\ IF ~Known(args.bootstrap_type)
       THEN /\ Raise("KeyError")
            /\ UNCHANGED <<p_value, bootVars, log>>
       ELSE /\ log' = [log EXCEPT !.estimates = @ + 1]
            /\ err' = err
            /\ IF args.bootstrap_type = "ttest"
               THEN /\ \E p \in TTest1Samp(Ratios(d0_stats, d1_stats)) :
                          p_value' = TTestPValue(p, Ratios(d0_stats, d1_stats))
                    /\ pc' = "done"
                    /\ UNCHANGED bootVars
               ELSE LET g == IF args.bootstrap_type = "mindiv" THEN "div" ELSE "diff"
                    IN /\ f' = g
                       /\ h0' = d0_stats
                       /\ h1' = d1_stats
                       /\ B' = NumBoot
                       /\ t_obs' = Stat(g, d0_stats, d1_stats)
                       /\ caller' = args.bootstrap_type
                       /\ pc' = "bootstrap_call"
                       /\ UNCHANGED <<p_value, t_star, b_id>>
    /\ UNCHANGED <<sweep, args, dataVars, d0_stats, d1_stats, clf, perm_id, perm_ids,
                   x_z_bootstrap, tfVars, y_pred0, y_pred1, clock>>

\* Lines 72-75: bootstrap(h0, h1, f, B) is entered.
BootstrapCall ==
    /\ pc = "bootstrap_call"
    /\ t_star' = Zeros(B)
    /\ b_id' = 0
    /\ pc' = "bootstrap"
    /\ UNCHANGED <<sweep, args, err, dataVars, d0_stats, d1_stats, clf, perm_id,
                   perm_ids, x_z_bootstrap, tfVars, y_pred0, y_pred1, p_value,
                   f, h0, h1, B, t_obs, caller, clock, log>>

\* Lines 76-78: one iteration of bootstrap()'s loop.
BootstrapStep ==
    /\ pc = "bootstrap"
    /\ b_id < B
    /\ \E b_data \in Choice(h0 \o h1) :
          t_star' = [t_star EXCEPT ![b_id + 1] = Replicate(f, b_data, Len(h0))]
    /\ b_id' = b_id + 1
    /\ UNCHANGED <<sweep, args, pc, err, dataVars, d0_stats, d1_stats, clf, perm_id,
                   perm_ids, x_z_bootstrap, tfVars, y_pred0, y_pred1, p_value,
                   f, h0, h1, B, t_obs, caller, clock, log>>

\* Line 79, then lines 26-27 (43-44) of the estimator and lines 186-189 of
\* test(): the fraction of replicates above t_obs is the p-value returned.
BootstrapReturn ==
    /\ pc = "bootstrap"
    /\ b_id >= B
    /\ IF caller = "direct"
       THEN /\ pc' = "returned"
            /\ p_value' = p_value
       ELSE /\ p_value' = Fraction(t_star, t_obs)
            /\ pc' = "done"
    /\ UNCHANGED <<sweep, args, err, dataVars, d0_stats, d1_stats, clf, perm_id,
                   perm_ids, x_z_bootstrap, tfVars, y_pred0, y_pred1, bootVars,
                   clock, log>>

Next ==
    \/ Setup
    \/ BeginTrial
    \/ InitSave
    \/ Fit0
    \/ Predict0
    \/ InitRestore
    \/ Fit1
    \/ Predict1
    \/ TrialStats
    \/ Dispatch
    \/ BootstrapCall
    \/ BootstrapStep
    \/ BootstrapReturn

\* A call of test().
Spec == Init /\ [][Next]_vars

\* ------------------------------------- the estimators on their own

\* The arguments of a call whose trial loop left the statistics d0s, d1s.
ArgsAfter(k, bt) ==
    [x |-> CallerX(1), y |-> CallerY(1), z |-> CallerZ, num_perm |-> k,
     prop_test |-> <<1, 2>>, max_time |-> 100, discrete |-> <<FALSE, FALSE>>,
     fixed_arch |-> FALSE, bootstrap_type |-> bt]

\* Either an estimator is about to be called on two statistic sequences of
\* one length, or bootstrap(h0, h1, f, B) is called directly.
InitBoot ==
    /\ err = "none"
    /\ x = NoArr /\ y = NoArr /\ z = NoArr
    /\ n_samples = 0 /\ n_test = 0 /\ x_z = NoArr
    /\ clf = NoClf
    /\ perm_ids = <<>> /\ x_z_bootstrap = NoArr
    /\ sess = NoSess /\ default_graph = 1 /\ init_nn_save = 0
    /\ y_pred0 = NoArr /\ y_pred1 = NoArr
    /\ p_value = NaN
    /\ t_obs = NaN /\ t_star = <<>> /\ b_id = 0
    /\ clock = 0
    /\ log = NoLog
    /\ sweep = NoSweep
    /\ \/ \E k \in Lens :
            /\ pc = "loop"
            /\ args \in {ArgsAfter(k, bt) : bt \in BootstrapTypes}
            /\ perm_id = k
            /\ d0_stats \in [1..k -> StatVals]
            /\ d1_stats \in [1..k -> StatVals]
            /\ f = "none" /\ h0 = <<>> /\ h1 = <<>> /\ B = 0
            /\ caller = "none"
       \/ \E m, n \in Lens :
            /\ pc = "bootstrap_call"
            /\ args = ArgsAfter(1, "unknown")
            /\ perm_id = 0
            /\ d0_stats = <<>> /\ d1_stats = <<>>
            /\ f \in {"div", "diff"}
            /\ h0 \in [1..m -> StatVals]
            /\ h1 \in [1..n -> StatVals]
            /\ B \in 0..NumBoot
            /\ caller = "direct"

NextBoot ==
    \/ Dispatch
    \/ BootstrapCall
    \/ BootstrapStep
    \/ BootstrapReturn

\* A call of an estimator, or of bootstrap().
SpecBoot == InitBoot /\ [][NextBoot]_vars

\* ------------------------------------------- the sweep driver
\* experiment_cond_strength.py, for one method and one dataset (the method
\* and the dataset are part of every key and the same throughout a sweep,
\* so a key is modelled by its n_samples, dim and param).

\* Line 34.
MAX_TIME == 60

\* The lengths of SAMPLE_NUMS, of the dataset's dimensionalities and of its
\* complexity parameters.
NumSampleNums == 2

NumDims == 2

NumParams == 2

\* Line 31: increasing sample numbers.
SAMPLE_NUMS == [i \in 1..NumSampleNums |-> 100 * i]

\* DSETS[dset][2] and DSETS[dset][1]: the dimensionalities, increasing, and
\* the complexity parameters.
DIMS == [i \in 1..NumDims |-> i]

PARAMS == [i \in 1..NumParams |-> i]

Range(q) == {q[i] : i \in 1..Len(q)}

Keys == Range(SAMPLE_NUMS) \X Range(DIMS) \X Range(PARAMS)

\* Lines 60-61: the key of a configuration.
Key(ns, dim, param) == <<ns, dim, param>>

\* What method.test returns: the p-value p alone, or (with plot_return) a
\* tuple that starts with it.
PValue(tuple, p) == [tuple |-> tuple, p |-> p]

\* The p-values and the elapsed times of a run: -1 is the method's time-out
\* sentinel, 0 a p-value; the two calls took a tick, or more than MAX_TIME.
PVals == {-1, 0}

Tocs == {1, MAX_TIME + 1}

\* Lines 112-114: what is recorded for a configuration that is not run.
SkipEntry == [pd |-> PValue(TRUE, -3), pi |-> PValue(TRUE, -3), toc |-> -3]

\* v < 0 for a recorded p-value.  A tuple compared with a number is never
\* smaller under Python 2 and a TypeError under Python 3.
Lt0(v, python) ==
    IF ~v.tuple THEN (IF v.p < 0 THEN "True" ELSE "False")
    ELSE IF python = 2 THEN "False"
    ELSE "TypeError"

\* Lines 64-65 (75-76): the condition on the last entry e of a key, its
\* operands evaluated from left to right.
Failing(e, python) ==
    IF Lt0(e.pd, python) /= "False" THEN Lt0(e.pd, python)
    ELSE IF Lt0(e.pi, python) /= "False" THEN Lt0(e.pi, python)
    ELSE IF e.toc > MAX_TIME THEN "True"
    ELSE "False"

LastOf(q) == q[Len(q)]

\* Lines 57-66: the loop over SAMPLE_NUMS from its i-th element on.  It
\* returns True, raises, or is left ("none"); ns is the loop variable as
\* the loop ends.
RECURSIVE SamplesLoop(_, _, _, _, _, _)
SamplesLoop(res, i, n, dim, param, python) ==
    LET ns == SAMPLE_NUMS[i]
        key_prev == Key(ns, dim, param)
        more == IF i < Len(SAMPLE_NUMS)
                THEN SamplesLoop(res, i + 1, n, dim, param, python)
                ELSE [ret |-> "none", ns |-> ns]
    IN IF ns > n THEN [ret |-> "none", ns |-> ns]
       ELSE IF res[key_prev] = <<>> THEN [ret |-> "none", ns |-> ns]
       ELSE IF Failing(LastOf(res[key_prev]), python) /= "False"
            THEN [ret |-> Failing(LastOf(res[key_prev]), python), ns |-> ns]
       ELSE more

\* Lines 68-77: the loop over the dimensionalities from the i-th on, with
\* ns as the first loop left it.
RECURSIVE DimsLoop(_, _, _, _, _, _)
DimsLoop(res, i, ns, n, param, python) ==
    LET key_prev == Key(n, DIMS[i], param)
    IN IF ns > n THEN "none"
       ELSE IF res[key_prev] = <<>> THEN "none"
       ELSE IF Failing(LastOf(res[key_prev]), python) /= "False"
            THEN Failing(LastOf(res[key_prev]), python)
       ELSE IF i < Len(DIMS) THEN DimsLoop(res, i + 1, ns, n, param, python)
       ELSE "none"

\* Lines 53-78: "True", "False", or "TypeError" when a comparison raises.
check_if_too_slow(res, n, dim, param, python) ==
    LET first == SamplesLoop(res, 1, n, dim, param, python)
        second == DimsLoop(res, 1, first.ns, n, param, python)
    IN IF first.ret /= "none" THEN first.ret
       ELSE IF second /= "none" THEN second
       ELSE "False"

\* The configuration the loops of lines 90-92 are at.
CurKey == Key(SAMPLE_NUMS[sweep.i_ns], DIMS[sweep.i_dim], PARAMS[sweep.i_param])

\* Lines 90-92: the loops move on: n_samples innermost, then param, then dim.
Advance(sw) ==
    IF sw.i_ns < Len(SAMPLE_NUMS) THEN [sw EXCEPT !.i_ns = @ + 1]
    ELSE IF sw.i_param < Len(PARAMS) THEN [sw EXCEPT !.i_ns = 1, !.i_param = @ + 1]
    ELSE IF sw.i_dim < Len(DIMS)
         THEN [sw EXCEPT !.i_ns = 1, !.i_param = 1, !.i_dim = @ + 1]
    ELSE [sw EXCEPT !.pc = "done"]

\* Line 107, the check at the current configuration.
CurCheck ==
    check_if_too_slow(sweep.RESULTS, CurKey[1], CurKey[2], CurKey[3], sweep.python)

\* Line 126: RESULTS[key].append(entry), and the loops move on.
Record(entry, ran) ==
    sweep' = Advance([sweep EXCEPT
                 !.RESULTS[CurKey] = Append(@, entry),
                 !.invoked = IF ran THEN @ \cup {CurKey} ELSE @])

testVars == <<args, pc, err, x, y, z, n_samples, n_test, x_z, d0_stats, d1_stats,
              clf, perm_id, perm_ids, x_z_bootstrap, sess, default_graph,
              init_nn_save, y_pred0, y_pred1, p_value, f, h0, h1, B, t_obs,
              t_star, b_id, caller, clock, log>>

\* Lines 93-114, 126: the check says too slow; the method is not run and the
\* skip entry is recorded.
SweepSkip ==
    /\ sweep.pc = "loop"
    /\ CurCheck = "True"
    /\ Record(SkipEntry, FALSE)
    /\ UNCHANGED testVars

\* Lines 93-108, 115-126: the check says not too slow; the method's test is
\* run on the dependent and on the independent data and the two results are
\* recorded with the time the two calls took.
SweepRun ==
    /\ sweep.pc = "loop"
    /\ CurCheck = "False"
    /\ \E pd \in PVals, pi \in PVals, toc \in Tocs :
          Record([pd |-> PValue(sweep.tuples, pd), pi |-> PValue(sweep.tuples, pi),
                  toc |-> toc], TRUE)
    /\ UNCHANGED testVars

\* Line 107: a comparison inside the check raises, and the sweep ends.
SweepRaise ==
    /\ sweep.pc = "loop"
    /\ CurCheck = "TypeError"
    /\ sweep' = [sweep EXCEPT !.pc = "raised"]
    /\ UNCHANGED testVars

\* Lines 81-84: an empty RESULTS; the interpreter is Python 2 or Python 3,
\* and the method returns a tuple or a number.
InitSweep ==
    /\ args = ArgsAfter(1, "unknown")
    /\ pc = "none"
    /\ err = "none"
    /\ x = NoArr /\ y = NoArr /\ z = NoArr
    /\ n_samples = 0 /\ n_test = 0 /\ x_z = NoArr
    /\ d0_stats = <<>> /\ d1_stats = <<>>
    /\ clf = NoClf
    /\ perm_id = 0 /\ perm_ids = <<>> /\ x_z_bootstrap = NoArr
    /\ sess = NoSess /\ default_graph = 1 /\ init_nn_save = 0
    /\ y_pred0 = NoArr /\ y_pred1 = NoArr
    /\ p_value = NaN
    /\ f = "none" /\ h0 = <<>> /\ h1 = <<>> /\ B = 0 /\ t_obs = NaN
    /\ t_star = <<>> /\ b_id = 0 /\ caller = "none"
    /\ clock = 0
    /\ log = NoLog
    /\ \E py \in {2, 3}, tup \in BOOLEAN :
          sweep = [pc |-> "loop", python |-> py, tuples |-> tup,
                   RESULTS |-> [k \in Keys |-> <<>>],
                   i_dim |-> 1, i_param |-> 1, i_ns |-> 1, invoked |-> {}]

NextSweep ==
    \/ SweepSkip
    \/ SweepRun
    \/ SweepRaise

\* A sweep of one method over one dataset.
SpecSweep == InitSweep /\ [][NextSweep]_vars

\* ------------------------------------------------------------ claims

\* The trial loop has run to its end.
LoopCompleted == pc /= "start" /\ log.trials = args.num_perm

\* The caller's variable that became the regression input, and the target.
InputOf == IF log.role = "x" THEN args.x ELSE args.y

TargetOf == IF log.role = "x" THEN args.y ELSE args.x

Last(row) == row[Len(row)]

\* C1: once the time spent in the trial loop exceeds max_time no further
\* trial begins, and test() returns the sentinel p-value -1.
C1_TimeoutSentinel ==
    /\ pc = "init0" => clock <= args.max_time
    /\ (pc = "done" /\ clock > args.max_time) => p_value = <<-1, 1>>

\* C2: with a bootstrap_type that names no estimator, the call fails before
\* any trial runs: no oracle is constructed and no permutation is drawn.
C2_FailsBeforeAnyTrial ==
    ~Known(args.bootstrap_type) =>
        /\ pc /= "done"
        /\ err = "KeyError" => (log.built = 0 /\ log.begun = 0 /\ clock = 0)

\* C3: when exactly one of x, y is discrete the continuous one is the
\* regression input, whatever the column counts; when the flags are equal
\* the variable with more columns is the regression input.
C3_RoleSelection ==
    pc /= "start" =>
        /\ (args.discrete[1] /\ ~args.discrete[2]) => log.role = "y"
        /\ (~args.discrete[1] /\ args.discrete[2]) => log.role = "x"
        /\ (args.discrete[1] = args.discrete[2] /\ args.x.cols > args.y.cols)
              => log.role = "x"
        /\ (args.discrete[1] = args.discrete[2] /\ args.x.cols < args.y.cols)
              => log.role = "y"

\* The parts of C4 that do not concern the sign of the entries: the lengths,
\* one write per index during its own trial, d0 from the prediction on the
\* shuffled input and d1 from the prediction on the unshuffled input of the
\* trial's one permutation draw.
PairedByTrial ==
    /\ pc /= "start" =>
          /\ Len(d0_stats) = args.num_perm /\ Len(d1_stats) = args.num_perm
          /\ \A t \in 1..args.num_perm :
                /\ log.writes0[t] = (IF t <= log.trials THEN 1 ELSE 0)
                /\ log.writes1[t] = (IF t <= log.trials THEN 1 ELSE 0)
    /\ (pc = "loop" /\ perm_id > 0) =>
          LET held == Arr(SubSeq(y.rows, 1, n_test), y.cols)
          IN /\ perm_id = log.trials
             /\ log.trial.draws = 1
             /\ d0_stats[perm_id] = mse(y_pred0, held)
             /\ d1_stats[perm_id] = mse(y_pred1, held)
             /\ log.trial.pred0.rows =
                   [i \in 1..n_test |-> x.rows[perm_ids[i]] \o z.rows[i]]
             /\ log.trial.pred1.rows = [i \in 1..n_test |-> x.rows[i] \o z.rows[i]]

\* C4 as stated: when the loop completes both sequences have length
\* num_perm, every entry is non-negative, and each entry was written once,
\* in its trial, from that trial's permutation draw.
C4_AllNonNegative ==
    /\ PairedByTrial
    /\ LoopCompleted =>
          \A t \in 1..args.num_perm :
              /\ IsFinite(d0_stats[t]) /\ d0_stats[t][1] >= 0
              /\ IsFinite(d1_stats[t]) /\ d1_stats[t][1] >= 0

\* C4, amended: as C4, but the entries are non-negative when there is at
\* least one held-out row (n_test >= 1); with n_test = 0 every entry is nan.
C4_StatsPaired ==
    /\ PairedByTrial
    /\ LoopCompleted =>
          \A t \in 1..args.num_perm :
              IF n_test >= 1
              THEN /\ IsFinite(d0_stats[t]) /\ d0_stats[t][1] >= 0
                   /\ IsFinite(d1_stats[t]) /\ d1_stats[t][1] >= 0
              ELSE IsNaN(d0_stats[t]) /\ IsNaN(d1_stats[t])

\* Two trials completed on two held-out rows, with different statistics.
C4_Witness ==
    /\ LoopCompleted /\ args.num_perm = 2 /\ n_test = 2
    /\ ~FEq(d0_stats[1], d0_stats[2])
    /\ ~FEq(d0_stats[2], d1_stats[2])

\* C7: an error inside a trial leaves test() with that error: no estimator
\* is invoked and nothing is returned; an estimator is invoked only after
\* num_perm completed trials; a failed trial is not begun again.
C7_ErrorsAbort ==
    /\ err /= "none" => (pc = "raised" /\ log.estimates = 0)
    /\ pc = "done" => err = "none"
    /\ log.estimates > 0 => (log.trials = args.num_perm /\ err = "none")
    /\ log.estimates <= 1
    /\ pc /= "start" => log.begun <= log.trials + 1
    /\ log.trial.fits <= 2

\* The second trial failed in mse after the first completed.
C7_Witness ==
    pc = "raised" /\ err = "ShapeError" /\ log.trials = 1 /\ log.begun = 2

\* C8: the permutation is applied to x only.  Row i of the null dataset is
\* x[perm[i]] with z[i], against y[i]; the alternative dataset is x, z, y in
\* the caller's row alignment; the caller's arrays are as they were passed.
C8_PermutesXOnly ==
    /\ args \in Args
    /\ log.trial.fit0 /= NoCall =>
          \A i \in 1..Len(log.trial.fit0.in.rows) :
              /\ log.trial.fit0.in.rows[i][1] = InputOf.rows[perm_ids[n_test + i]][1]
              /\ Last(log.trial.fit0.in.rows[i]) = args.z.rows[n_test + i][1]
              /\ log.trial.fit0.tgt.rows[i][1] = TargetOf.rows[n_test + i][1]
    /\ log.trial.pred0 /= NoArr =>
          \A i \in 1..Len(log.trial.pred0.rows) :
              /\ log.trial.pred0.rows[i][1] = InputOf.rows[perm_ids[i]][1]
              /\ Last(log.trial.pred0.rows[i]) = args.z.rows[i][1]
    /\ log.trial.fit1 /= NoCall =>
          \A i \in 1..Len(log.trial.fit1.in.rows) :
              /\ log.trial.fit1.in.rows[i][1] = InputOf.rows[n_test + i][1]
              /\ Last(log.trial.fit1.in.rows[i]) = args.z.rows[n_test + i][1]
              /\ log.trial.fit1.tgt.rows[i][1] = TargetOf.rows[n_test + i][1]
    /\ log.trial.pred1 /= NoArr =>
          \A i \in 1..Len(log.trial.pred1.rows) :
              /\ log.trial.pred1.rows[i][1] = InputOf.rows[i][1]
              /\ Last(log.trial.pred1.rows[i]) = args.z.rows[i][1]

\* Both fits and both predictions of a second trial were made under a
\* permutation that moves every row.
C8_Witness ==
    /\ pc = "stats" /\ perm_id = 1 /\ n_test = 1
    /\ \A i \in 1..n_samples : perm_ids[i] /= i

\* The conditioning values of the rows of an array: z is never permuted, so
\* its value names the row an entry of a dataset was taken from.
RowIds(a) == {Last(a.rows[i]) : i \in 1..Len(a.rows)}

\* C9: n_test = floor(n * prop_test); both fits use exactly rows [n_test, n)
\* and both predictions and statistics exactly rows [0, n_test); the two
\* row sets are disjoint and cover all n rows.
C9_HeldOutSplit ==
    /\ NTest(100, <<1, 5>>) = 20
    /\ pc /= "start" =>
          /\ n_test * args.prop_test[2] <= n_samples * args.prop_test[1]
          /\ n_samples * args.prop_test[1] < (n_test + 1) * args.prop_test[2]
    /\ \A c \in {"fit0", "fit1"} :
          log.trial[c] /= NoCall =>
              /\ RowIds(log.trial[c].in) = {z.rows[i][1] : i \in (n_test + 1)..n_samples}
              /\ Len(log.trial[c].in.rows) = n_samples - n_test
              /\ log.trial[c].tgt.rows = [i \in 1..(n_samples - n_test) |-> y.rows[n_test + i]]
    /\ \A c \in {"pred0", "pred1"} :
          log.trial[c] /= NoArr =>
              /\ RowIds(log.trial[c]) = {z.rows[i][1] : i \in 1..n_test}
              /\ Len(log.trial[c].rows) = n_test
              /\ \A d \in {"fit0", "fit1"} :
                    log.trial[d] /= NoCall =>
                        /\ RowIds(log.trial[c]) \cap RowIds(log.trial[d].in) = {}
                        /\ RowIds(log.trial[c]) \cup RowIds(log.trial[d].in)
                              = {z.rows[i][1] : i \in 1..n_samples}
    /\ (pc = "loop" /\ perm_id > 0) =>
          /\ d0_stats[perm_id] = mse(y_pred0, Arr([i \in 1..n_test |-> y.rows[i]], y.cols))
          /\ d1_stats[perm_id] = mse(y_pred1, Arr([i \in 1..n_test |-> y.rows[i]], y.cols))

\* A trial has fitted on one row and predicted on the two held-out rows.
C9_Witness ==
    /\ pc = "stats" /\ n_test = 2 /\ n_samples = 3
    /\ Len(y_pred0.rows) = 2 /\ Len(y_pred1.rows) = 2

\* C10: with fixed_arch one oracle is constructed, before the loop, and its
\* initial parameters are captured once; every fit of every trial starts
\* from that recorded state, and the oracle stays usable after the
\* between-trial reset.
C10_FixedArchReuse ==
    args.fixed_arch =>
        /\ log.built <= 1
        /\ log.saves <= 1
        /\ log.trial.fit0 /= NoCall => log.trial.fit0.start = log.first_saved
        /\ log.trial.fit1 /= NoCall => log.trial.fit1.start = log.first_saved
        /\ err /= "GraphError"

\* h with its elements reordered by the permutation p.
Reorder(h, p) == [i \in 1..Len(h) |-> h[p[i]]]

\* C5: bootstrap(h0, h1, f, B) returns B replicates, each the statistic of a
\* with-replacement draw from the pooled values, and what it can return is
\* the same for every reordering of h0 and every reordering of h1.  (h0, h1
\* and f do not change during the call, so the sets of replicates are
\* compared as the call is made.)
C5_BootstrapLengthAndOrder ==
    caller = "direct" =>
        /\ pc = "returned" =>
              /\ Len(t_star) = B /\ b_id = B
              /\ \A b \in 1..B : t_star[b] \in Replicates(f, h0, h1)
        /\ pc = "bootstrap_call" =>
              \A p \in Permutation(Len(h0)), q \in Permutation(Len(h1)) :
                  Replicates(f, Reorder(h0, p), Reorder(h1, q)) = Replicates(f, h0, h1)

\* bootstrap() returned two different replicates of groups of different
\* sizes, the larger with two different values.
C5_Witness ==
    /\ pc = "returned" /\ caller = "direct" /\ B >= 2
    /\ Len(h0) = 1 /\ Len(h1) = 2 /\ h1[1] /= h1[2]
    /\ t_star[1] /= t_star[2]

\* The ratios handed to the t-test are finite, at least two, and not all equal.
TTestNonDegenerate(d0s, d1s) ==
    /\ Len(d0s) >= 2
    /\ \A i \in 1..Len(d0s) : IsFinite(d0s[i]) /\ IsFinite(d1s[i]) /\ d1s[i][1] > 0
    /\ \E i, j \in 1..Len(d0s) : d0s[i][1] * d1s[i][2] * d1s[j][1] * d0s[j][2]
                                   /= d0s[j][1] * d1s[j][2] * d1s[i][1] * d0s[i][2]

\* p is a number of [0, 1].
InUnit(p) == p[2] > 0 /\ 0 <= p[1] /\ p[1] <= p[2]

\* C6: on finite, non-degenerate statistics every estimator returns a value
\* of [0, 1]; for mindiv and mindiff it is the number of replicates strictly
\* greater than the observed statistic over the number of replicates.
C6_PValueInUnit ==
    pc = "done" =>
        IF args.bootstrap_type = "ttest"
        THEN TTestNonDegenerate(d0_stats, d1_stats) => InUnit(p_value)
        ELSE LET observed == IF args.bootstrap_type = "mindiv"
                             THEN FDiv(NpMin(d0_stats), NpMin(d1_stats))
                             ELSE FSub(NpMin(d0_stats), NpMin(d1_stats))
                 above == {b \in 1..Len(t_star) : FGt(t_star[b], observed)}
             IN /\ (\A i \in 1..Len(d0_stats) : IsFinite(d0_stats[i]) /\ IsFinite(d1_stats[i]))
                      => InUnit(p_value)
                /\ p_value = <<Cardinality(above), Len(t_star)>>
                /\ Len(t_star) = NumBoot

\* mindiv returned a p-value strictly between 0 and 1.
C6_Witness ==
    /\ pc = "done" /\ args.bootstrap_type = "mindiv"
    /\ 0 < p_value[1] /\ p_value[1] < p_value[2]

\* The entry recorded for the configuration k.
EntryOf(k) == LastOf(sweep.RESULTS[k])

\* The recorded result is a failure or a time-out: a negative p-value (the
\* skip sentinel -3 included) or more than MAX_TIME elapsed.
Failed(e) == e.pd.p < 0 \/ e.pi.p < 0 \/ e.toc > MAX_TIME

\* k2 has the param of k1 and is at least as demanding: the same dim and
\* more samples, or a larger dim and as many samples or more.  Such a k2 is
\* visited after k1.
Harder(k1, k2) ==
    /\ k2[3] = k1[3]
    /\ \/ k2[2] = k1[2] /\ k2[1] > k1[1]
       \/ k2[2] > k1[2] /\ k2[1] >= k1[1]

\* C11: once a configuration has recorded a failed or timed-out result,
\* every at least as demanding configuration of the same param that the
\* sweep comes to is skipped: its test is not invoked and the sentinel -3 is
\* recorded, also when the results in between are themselves skips.
C11_SkipsHarder ==
    sweep.pc /= "idle" =>
        \A k1, k2 \in Keys :
            (sweep.RESULTS[k1] /= <<>> /\ Failed(EntryOf(k1)) /\ Harder(k1, k2)) =>
                /\ sweep.RESULTS[k2] /= <<>> =>
                      (EntryOf(k2) = SkipEntry /\ k2 \notin sweep.invoked)
                /\ ~(sweep.pc = "raised" /\ CurKey = k2)

====
